---- MODULE Spec2Model ----
(***************************************************************************)
(* resty-fs: the archive engine behind POST /compress and POST /decompress *)
(* (src/index.js, the routed handlers of lines 259-731).                   *)
(*                                                                         *)
(* The model is one server process with one client that sends its next     *)
(* request when the previous one has been answered.  Streams that a        *)
(* handler starts and does not await keep running after the answer.        *)
(*                                                                         *)
(* Paths are sequences of segments: <<"srv", "T", "a">> is /srv/T/a.       *)
(***************************************************************************)
EXTENDS Naturals, Sequences, FiniteSets, TLC

VARIABLES
    disk,      \* the filesystem: absolute path -> node
    req,       \* the request being handled (NoReq between requests)
    resp,      \* the answer to req (NoResp while the handler runs)
    pc,        \* the handler's position
    ncomp,     \* compress requests sent so far
    nextr,     \* decompress requests sent so far
    faults,    \* I/O failures the environment has injected so far
    crashed,   \* an 'error' event without a listener ended the process
    root,      \* tar()/zip(): f, the resolved path to archive
    files,     \* getFiles: the list being built, <<[p, s, st]>>
    tasks,     \* tar()/zip(): per entry "reading" | "done" | "failed"
    packs,     \* per compress request: its pack stream and its write stream
    rstreams,  \* per decompress request: the read stream of the archive
    idx,       \* untar(): entries the loop has completed
    wss,       \* untar(): the write streams of the file entries
    metas,     \* per decompress request: the three calls of Promise.all
    log        \* the filesystem calls made so far and their outcome

\* what the decompress side owns, and what the compress side owns
xvars == <<nextr, rstreams, idx, wss, metas>>
cvars == <<ncomp, root, files, tasks, packs>>

-----------------------------------------------------------------------------
(* Bounds of the model *)

\* requests of each kind the client sends in one run
MaxRequests == 1
\* I/O failures the environment injects in one run
MaxFaults == 1
\* the wall clock (ms) during the run; every original mtime is earlier
NowMs == 9000

-----------------------------------------------------------------------------
(* Paths: node:path on POSIX *)

\* const cwd = process.cwd()
cwd == <<"srv">>

Init1(s) == SubSeq(s, 1, Len(s) - 1)

\* path.dirname of an absolute path
dirname(p) == IF p = <<>> THEN <<>> ELSE Init1(p)

\* path.basename
basename(p) == IF p = <<>> THEN "" ELSE p[Len(p)]

RECURSIVE normalize(_, _)
\* resolve "." and ".." segments, left to right, of an absolute path
normalize(acc, segs) ==
    IF segs = <<>> THEN acc
    ELSE LET h == Head(segs)
             a == IF h = ".." THEN dirname(acc)
                  ELSE IF h \in {".", ""} THEN acc
                  ELSE Append(acc, h)
         IN  normalize(a, Tail(segs))

\* A path string as the program receives it: abs says it starts with "/".
PathStr(abs, segs) == [abs |-> abs, segs |-> segs]

\* path.resolve(base, s) for an absolute base: an absolute s replaces base
resolve(base, s) ==
    IF s.abs THEN normalize(<<>>, s.segs) ELSE normalize(<<>>, base \o s.segs)

\* `./${s}`: the prefix makes any string relative
dotSlash(segs) == PathStr(FALSE, <<".">> \o segs)

\* p lies in directory t or is t
Inside(t, p) == Len(p) >= Len(t) /\ SubSeq(p, 1, Len(t)) = t

\* the first index at which cwd + "/" occurs in the string of p (0: nowhere)
cwdAt(p) ==
    LET k == Len(cwd)
        hits == {i \in 1..Len(p) : i + k <= Len(p) /\ SubSeq(p, i, i + k - 1) = cwd}
    IN  IF hits = {} THEN 0 ELSE CHOOSE i \in hits : \A j \in hits : i <= j

\* p.replace(`${cwd}/`, ""): String.replace removes the first occurrence,
\* wherever it is; before it, the text keeps its own leading "/"
stripCwd(p) ==
    LET i == cwdAt(p)
        k == Len(cwd)
        rest == SubSeq(p, i + k, Len(p))
    IN  IF i = 0 THEN PathStr(TRUE, p)
        ELSE IF i = 1 THEN PathStr(FALSE, rest)
        ELSE PathStr(TRUE, SubSeq(p, 1, i - 2)
                           \o <<p[i - 1] \o Head(rest)>> \o Tail(rest))

-----------------------------------------------------------------------------
(* The filesystem *)

\* file content: plain bytes, or an archive (its entries in file order, and
\* fin: the end-of-archive record is written)
Raw(b) == [kind |-> "raw", bytes |-> b, entries |-> <<>>, fin |-> FALSE]
NoData == [kind |-> "none", bytes |-> 0, entries |-> <<>>, fin |-> FALSE]
Arch(kind, entries, fin) ==
    [kind |-> kind, bytes |-> 0, entries |-> entries, fin |-> fin]

\* the bytes of a gzip member that holds data, and what inflating bytes
\* gives: the data of a gzip member, an error of anything else
gzip(data) == [data EXCEPT !.kind = "gzip:" \o data.kind]
gunzip(data) ==
    IF data.kind = "gzip:tar" THEN [ok |-> TRUE, data |-> [data EXCEPT !.kind = "tar"]]
    ELSE IF data.kind = "gzip:raw" THEN [ok |-> TRUE, data |-> [data EXCEPT !.kind = "raw"]]
    ELSE [ok |-> FALSE, data |-> NoData]

\* fs.Stats.mode: the type bits (S_IFDIR, S_IFREG) and the permission bits
typeBits(type) == IF type = "directory" THEN 16384 ELSE 32768

Node(type, data, perm, uid, gid, mtime) ==
    [type |-> type, data |-> data, mode |-> typeBits(type) + perm,
     uid |-> uid, gid |-> gid, mtime |-> mtime]

exists(d, p) == p \in DOMAIN d
isDirectory(d, p) == exists(d, p) /\ d[p].type = "directory"
isFile(d, p) == exists(d, p) /\ d[p].type = "file"

\* the entries of directory p, as fs.readdir lists them
children(d, p) == {q \in DOMAIN d : Len(q) = Len(p) + 1 /\ dirname(q) = p}

\* every path below p
descendants(d, p) == {q \in DOMAIN d : Len(q) > Len(p) /\ Inside(p, q)}

put(d, p, n) == [q \in DOMAIN d \cup {p} |-> IF q = p THEN n ELSE d[q]]

\* creating or removing a name in a directory stamps the directory's mtime
touchDir(d, p) == IF exists(d, p) THEN [d EXCEPT ![p].mtime = NowMs] ELSE d

\* the identity of the server process, and the permissions of what it
\* creates (0o666 and 0o777 under umask 0o022)
proc == [uid |-> 0, gid |-> 0]
defaultPerm(type) == IF type = "directory" THEN 493 ELSE 420

prefixes(p) == {SubSeq(p, 1, n) : n \in 0..Len(p)}

\* fs.mkdir(p, {recursive: true}) succeeds unless a component is a file
mkdirOk(d, p) == \A q \in prefixes(p) : ~isFile(d, q)

\* fs.mkdir(p) without {recursive: true}: p is created only if its parent
\* is there
mkdirPlain(d, p) ==
    IF p # <<>> /\ isDirectory(d, dirname(p)) /\ ~exists(d, p)
    THEN put(touchDir(d, dirname(p)), p,
             Node("directory", NoData, defaultPerm("directory"), proc.uid, proc.gid,
                  NowMs))
    ELSE d

\* fs.mkdir(p, {recursive: true}): every missing component is created
mkdirRecursive(d, p) ==
    LET new == {q \in prefixes(p) : ~exists(d, q)}
        parents == {dirname(q) : q \in new} \ new
    IN  [q \in DOMAIN d \cup new |->
            IF q \in new
            THEN Node("directory", NoData, defaultPerm("directory"), proc.uid, proc.gid,
                      NowMs)
            ELSE IF q \in parents THEN [d[q] EXCEPT !.mtime = NowMs]
            ELSE d[q]]

\* opening p for writing (flags "w") needs an existing parent directory and
\* no directory at p
openOk(d, p) == p # <<>> /\ isDirectory(d, dirname(p)) /\ ~isDirectory(d, p)

\* open(p, "w"): creates the file, or truncates the one that is there
openW(d, p, empty) ==
    IF exists(d, p)
    THEN [d EXCEPT ![p].data = empty, ![p].mtime = NowMs]
    ELSE put(touchDir(d, dirname(p)), p,
             Node("file", empty, defaultPerm("file"), proc.uid, proc.gid, NowMs))

\* a write to the open file p
writeAt(d, p, data) ==
    IF exists(d, p) THEN [d EXCEPT ![p].data = data, ![p].mtime = NowMs] ELSE d

-----------------------------------------------------------------------------
(* Requests and responses *)

NoReq == [kind |-> "none"]
NoResp == [status |-> 0, hasLocation |-> FALSE, location |-> <<>>, code |-> ""]

\* new Response(null, {status, headers: {location}})
Located(status, n) ==
    [status |-> status, hasLocation |-> TRUE, location |-> n, code |-> ""]

\* new Response(null, {status})
Plain(status) ==
    [status |-> status, hasLocation |-> FALSE, location |-> <<>>, code |-> ""]

\* codeToStatus without its ENOENT entry
codeToStatusNoEnoent(code) ==
    CASE code \in {"NOT_FOUND"} -> 404
      [] code \in {"VALIDATION", "PARSE"} -> 400
      [] OTHER -> 500

\* codeToStatus with 400 for the codes it has no entry for
codeToStatusFallback400(code) ==
    CASE code \in {"ENOENT", "NOT_FOUND"} -> 404
      [] OTHER -> 400

\* codeToStatus[code] || 500
codeToStatus(code) ==
    CASE code \in {"ENOENT", "NOT_FOUND"} -> 404
      [] code \in {"VALIDATION", "PARSE"} -> 400
      [] OTHER -> 500

\* onError that answers 500 whatever the code
onErrorAlways500(code) ==
    [status |-> 500, hasLocation |-> FALSE, location |-> <<>>, code |-> code]

\* onError: a validation error answers with its own response (400, as
\* codeToStatus has it), every other error with the mapped status
onError(code) ==
    [status |-> IF code = "VALIDATION" THEN 400 ELSE codeToStatus(code),
     hasLocation |-> FALSE, location |-> <<>>, code |-> code]

Formats == {"tar.gz", "zip"}

\* body.dir || "/"
orSlash(segs) == IF segs = <<>> THEN <<"", "">> ELSE segs

\* compressHandlerValidatior: format is one of the two literals
compressHandlerValidatior(body) == body.format \in Formats

\* compressHandler: the branch taken on body.format
compressFormat(format) ==
    IF format = "tar.gz" THEN "tar"
    ELSE IF format = "zip" THEN "zip"
    ELSE "400"

\* compressHandler: path.resolve(cwd, `./${dir}`, `./${body.target}`)
compressTarget(body) ==
    resolve(resolve(cwd, dotSlash(orSlash(body.dir))), dotSlash(body.target))

\* `${f}.tar.gz`, `${f}.zip`
withSuffix(f, suffix) ==
    IF f = <<>> THEN <<suffix>> ELSE Append(Init1(f), basename(f) \o suffix)

archiveName(f, fmt) == withSuffix(f, IF fmt = "tar" THEN ".tar.gz" ELSE ".zip")

-----------------------------------------------------------------------------
(* The pack streams: tar-stream's pack and zip-stream's Packer *)

\* a pack stream and the write stream it is piped into.  entries: what the
\* stream has emitted; out: the records of a tar stream, one by one; busy: the entry zip-stream is deflating; finish:
\* finish() was called; ended: the end-of-archive record is emitted and the
\* stream has ended; ws: the write stream; flushed: what is in the file.
NewPack(fmt) ==
    [fmt |-> fmt, entries |-> <<>>, out |-> <<>>, busy |-> <<>>, finish |-> FALSE,
     ended |-> FALSE, path |-> <<>>, ws |-> "none", flushed |-> 0,
     flushedEnd |-> FALSE]

\* the header tar-stream writes: mode & 0o7777, mtime in whole seconds
tarEntry(type, name, s, body) ==
    [name |-> name, type |-> type, mode |-> s.mode % 4096, uid |-> s.uid,
     gid |-> s.gid, mtime |-> s.mtime \div 1000, body |-> body]

\* what zip-stream keeps of {type, name, mode, mtime, uid, gid}: the name
\* without a leading "/", the mode; it reads the time from `date`, which the
\* program does not pass, and has no field for uid and gid
zipEntry(type, name, s, body) ==
    [name |-> PathStr(FALSE, name.segs), type |-> type, mode |-> s.mode % 4096,
     uid |-> proc.uid, gid |-> proc.gid, mtime |-> NowMs \div 1000,
     body |-> body]

\* path.resolve(f, p).replace(`${cwd}/`, ""): p is absolute already
entryName(f, p) == stripCwd(resolve(f, PathStr(TRUE, p)))

\* the records of one entry in a tar stream: its header, and for a file the
\* blocks of its body
headerRecord(e) == [rec |-> "header", name |-> e.name, type |-> e.type, data |-> NoData]
bodyRecord(e) == [rec |-> "body", name |-> e.name, type |-> e.type, data |-> e.body]
tarRecords(e) ==
    IF e.type = "file" THEN <<headerRecord(e), bodyRecord(e)>> ELSE <<headerRecord(e)>>

\* pack.entry(header, buffer): tar-stream appends header and body at once
packEntry(pk, e) ==
    [pk EXCEPT !.entries = Append(@, e), !.out = @ \o tarRecords(e)]

\* archive.entry(buffer, data) can be called only while no entry is in work
archiveEntryOk(pk) == pk.busy = <<>>

\* archive.entry(buffer, data): an empty source is stored at once, any other
\* is deflated, and is in the stream when the deflate has ended
archiveEntry(pk, e) ==
    IF e.body.kind \in {"none"} \/ (e.body.kind = "raw" /\ e.body.bytes = 0)
    THEN [pk EXCEPT !.entries = Append(@, e)]
    ELSE [pk EXCEPT !.busy = <<e>>]

\* a finish() that writes the central directory at once, whatever is in work
archiveFinishNow(pk) == [pk EXCEPT !.finish = TRUE, !.ended = TRUE]

\* archive.finish(): takes effect now, or when the entry in work is done
archiveFinish(pk) ==
    IF pk.busy = <<>> THEN [pk EXCEPT !.finish = TRUE, !.ended = TRUE]
    ELSE [pk EXCEPT !.finish = TRUE]

\* the kind of container the bytes in the destination file are
containerKind(fmt) == IF fmt = "tar" THEN "tar" ELSE "zip"

\* createWriteStream(n); pack.pipe(write)
pipeTo(pk, n) == [pk EXCEPT !.path = n, !.ws = "opening"]

-----------------------------------------------------------------------------
(* Promises *)

\* Promise.allSettled in place of Promise.all: waits for every task and
\* never rejects
promiseAllSettled(sts) ==
    IF \A i \in DOMAIN sts : sts[i] \in {"done", "failed"} THEN "fulfilled"
    ELSE "pending"

\* Promise.race-like: fulfilled as soon as one task is done
promiseRace(sts) ==
    IF \E i \in DOMAIN sts : sts[i] = "failed" THEN "rejected"
    ELSE IF \E i \in DOMAIN sts : sts[i] = "done" THEN "fulfilled"
    ELSE "pending"

\* Promise.all over tasks that are "pending", "done" or "failed": rejected
\* as soon as one task has failed, fulfilled when every task is done
promiseAll(sts) ==
    IF \E i \in DOMAIN sts : sts[i] = "failed" THEN "rejected"
    ELSE IF \A i \in DOMAIN sts : sts[i] = "done" THEN "fulfilled"
    ELSE "pending"

\* the handler's promise rejects: the framework calls onError with the
\* error's code and answers with what it returns
Throw(code) ==
    /\ resp' = onError(code)
    /\ pc' = "idle"

\* what a filesystem call on path p can end with: "" is success.  A missing
\* path is ENOENT; on an existing one the environment may inject EIO.
outcomes(d, p) ==
    IF ~exists(d, p) THEN {"ENOENT"}
    ELSE {""} \cup (IF faults < MaxFaults THEN {"EIO"} ELSE {})

Injected(err) == faults' = faults + (IF err = "EIO" THEN 1 ELSE 0)

\* the log: request kind and number, call, path, error code ("": none)
LoggedBy(by, id, op, p, err) ==
    log' = log \cup {[by |-> by, id |-> id, op |-> op, path |-> p, err |-> err]}

Logged(op, p, err) ==
    LoggedBy(req.kind, IF req.kind = "compress" THEN ncomp ELSE nextr, op, p, err)

NoPack == NewPack("none")

\* the Stats of a path that could not be stat'ed
NoStat == Node("none", NoData, 0, 0, 0, 0)

\* every order in which a set of paths can be listed
Orders(S) ==
    {o \in [1..Cardinality(S) -> S] : \A i, j \in DOMAIN o : o[i] = o[j] => i = j}

-----------------------------------------------------------------------------
(* POST /compress: compressHandler, tar(), zip(), getFiles() *)

states(items) == [i \in DOMAIN items |-> items[i].st]

fmtOf(r) == compressFormat(r.body.format)

makeEntry(fmt, type, name, s, body) ==
    IF fmt = "tar" THEN tarEntry(type, name, s, body)
    ELSE zipEntry(type, name, s, body)

RECURSIVE syncPartEager(_, _, _, _)
\* a synchronous part that writes the header of a file entry before the
\* read is awaited, the body following when the read has ended
syncPartEager(fl, i, f, pk) ==
    IF i > Len(fl) THEN pk
    ELSE LET e == makeEntry(pk.fmt, fl[i].s.type, entryName(f, fl[i].p),
                            fl[i].s, NoData)
         IN  syncPartEager(fl, i + 1, f,
                  IF fl[i].s.type = "file"
                  THEN [pk EXCEPT !.out = Append(@, headerRecord(e))]
                  ELSE IF pk.fmt = "tar" THEN packEntry(pk, e)
                  ELSE archiveEntry(pk, e))

RECURSIVE syncPart(_, _, _, _)
\* files.map(async (file) => ...) up to each task's first await: a task for
\* a file stops at `await fs.readFile(p)`, a task for anything else calls
\* entry() at once, in list order
syncPart(fl, i, f, pk) ==
    IF i > Len(fl) THEN pk
    ELSE IF fl[i].s.type = "file" THEN syncPart(fl, i + 1, f, pk)
    ELSE LET e == makeEntry(pk.fmt, "directory", entryName(f, fl[i].p),
                            fl[i].s, NoData)
         IN  syncPart(fl, i + 1, f,
                      IF pk.fmt = "tar" THEN packEntry(pk, e)
                      ELSE archiveEntry(pk, e))

\* the state of each task after the synchronous part
started(fl) ==
    [i \in DOMAIN fl |-> IF fl[i].s.type = "file" THEN "pending" ELSE "done"]

\* tar()/zip() after `await Promise.all(files.map(...))`, given the tasks'
\* states ts, the pack stream pk and the code of a failed task: rethrow, or
\* (zip: archive.finish()) createWriteStream(n), pipe, return n; and
\* compressHandler answers 204 with the location
Settle(ts, pk, code) ==
    LET r == promiseAll(ts) IN
    IF r = "rejected"
    THEN /\ Throw(code)
         /\ tasks' = <<>>
         /\ packs' = [packs EXCEPT ![ncomp] = NoPack]
    ELSE IF r = "fulfilled"
    THEN LET n == archiveName(root, pk.fmt)
             fin == IF pk.fmt = "zip" THEN archiveFinish(pk) ELSE pk
         IN  /\ packs' = [packs EXCEPT ![ncomp] = pipeTo(fin, n)]
             /\ resp' = Located(204, n)
             /\ pc' = "idle"
             /\ tasks' = <<>>
    ELSE /\ packs' = [packs EXCEPT ![ncomp] = pk]
         /\ tasks' = ts
         /\ pc' = "tasks"
         /\ resp' = NoResp

\* tar()/zip() that make the write stream and the pipe before the tasks
BeginTasksOpenFirst(fl) ==
    /\ files' = fl
    /\ Settle(started(fl),
              syncPart(fl, 1, root,
                       pipeTo(NewPack(fmtOf(req)), archiveName(root, fmtOf(req)))),
              "")

\* tar()/zip() after `await getFiles(f)`: new pack stream, start every task
BeginTasks(fl) ==
    /\ files' = fl
    /\ Settle(started(fl), syncPart(fl, 1, root, NewPack(fmtOf(req))), "")

\* getFiles after `Promise.all(dir.map(...))` settles
AfterStats(fl, code) ==
    LET r == promiseAll(states(fl)) IN
    IF r = "rejected"
    THEN Throw(code) /\ files' = fl /\ UNCHANGED <<tasks, packs>>
    ELSE IF r = "fulfilled" THEN BeginTasks(fl)
    ELSE /\ files' = fl
         /\ pc' = "stats"
         /\ resp' = NoResp
         /\ UNCHANGED <<tasks, packs>>

\* a compress request arrives: validation, then compressHandler up to the
\* first await (fs.stat in getFiles)
compressHandler(body) ==
    /\ pc = "idle" /\ ~crashed /\ ncomp < MaxRequests
    /\ ncomp' = ncomp + 1
    /\ req' = [kind |-> "compress", body |-> body]
    /\ files' = <<>>
    /\ tasks' = <<>>
    /\ IF ~compressHandlerValidatior(body)
       THEN Throw("VALIDATION") /\ root' = <<>>
       ELSE IF compressFormat(body.format) = "400"
       THEN resp' = Plain(400) /\ pc' = "idle" /\ root' = <<>>
       ELSE resp' = NoResp /\ pc' = "stat" /\ root' = compressTarget(body)
    /\ UNCHANGED <<disk, faults, crashed, packs, log, xvars>>

\* getFiles: `await fs.stat(f)` completes
getFilesStat ==
    /\ pc = "stat" /\ ~crashed
    /\ \E err \in outcomes(disk, root) :
        /\ Injected(err)
        /\ Logged("stat", root, err)
        /\ IF err # ""
           THEN Throw(err) /\ UNCHANGED <<files, tasks, packs>>
           ELSE IF disk[root].type = "directory"
           THEN pc' = "readdir" /\ UNCHANGED <<resp, files, tasks, packs>>
           ELSE BeginTasks(<<[p |-> root, s |-> disk[root], st |-> "done"]>>)
    /\ UNCHANGED <<disk, req, ncomp, xvars, crashed, root>>

\* getFiles: `await fs.readdir(f, {withFileTypes: true})` completes with
\* the directory's own entries, and the stat of each is started
getFilesReaddir ==
    /\ pc = "readdir" /\ ~crashed
    /\ \E o \in Orders(children(disk, root)) :
        /\ Logged("readdir", root, "")
        /\ AfterStats([i \in DOMAIN o |->
                          [p |-> resolve(root, PathStr(FALSE, <<basename(o[i])>>)),
                           s |-> NoStat, st |-> "pending"]], "")
    /\ UNCHANGED <<disk, req, ncomp, xvars, faults, crashed, root>>

\* getFiles: `await fs.stat(p)` of one entry completes
getFilesStatEntry(i) ==
    /\ pc = "stats" /\ ~crashed
    /\ files[i].st = "pending"
    /\ \E err \in outcomes(disk, files[i].p) :
        /\ Injected(err)
        /\ Logged("stat", files[i].p, err)
        /\ AfterStats([files EXCEPT ![i] =
                          IF err = ""
                          THEN [p |-> @.p, s |-> disk[@.p], st |-> "done"]
                          ELSE [p |-> @.p, s |-> NoStat, st |-> "failed"]], err)
    /\ UNCHANGED <<disk, req, ncomp, xvars, crashed, root>>

\* tar()/zip(): `await fs.readFile(p)` of one task completes, and the task
\* calls entry() with the buffer
readFile(i) ==
    /\ pc = "tasks" /\ ~crashed
    /\ tasks[i] = "pending"
    /\ \E err \in outcomes(disk, files[i].p) :
        LET pk == packs[ncomp]
            e == makeEntry(pk.fmt, "file", entryName(root, files[i].p),
                           files[i].s, disk[files[i].p].data)
        IN  /\ Injected(err)
            /\ Logged("readFile", files[i].p, err)
            /\ IF err # ""
               THEN Settle([tasks EXCEPT ![i] = "failed"], pk, err)
               ELSE IF pk.fmt = "tar"
               THEN Settle([tasks EXCEPT ![i] = "done"], packEntry(pk, e), "")
               ELSE IF archiveEntryOk(pk)
               THEN Settle([tasks EXCEPT ![i] = "done"], archiveEntry(pk, e), "")
               ELSE Settle([tasks EXCEPT ![i] = "failed"], pk, "")
    /\ UNCHANGED <<disk, req, ncomp, xvars, crashed, root, files>>

\* zip-stream: the deflate of the entry in work ends; a finish() that was
\* waiting for it writes the central directory and ends the stream
deflateEnd(k) ==
    /\ ~crashed
    /\ packs[k].busy # <<>>
    /\ packs' = [packs EXCEPT ![k] =
                    [@ EXCEPT !.entries = Append(@, packs[k].busy[1]),
                              !.busy = <<>>,
                              !.ended = packs[k].finish]]
    /\ UNCHANGED <<disk, req, resp, pc, ncomp, xvars, faults, crashed, root, files,
                   tasks, log>>

\* the write stream opens its file: created, or truncated
wsOpen(k) ==
    /\ ~crashed
    /\ packs[k].ws = "opening"
    /\ IF openOk(disk, packs[k].path)
       THEN /\ disk' = openW(disk, packs[k].path,
                             Arch(containerKind(packs[k].fmt), <<>>, FALSE))
            /\ packs' = [packs EXCEPT ![k].ws = "open"]
            /\ LoggedBy("compress", k, "open", packs[k].path, "")
       ELSE /\ packs' = [packs EXCEPT ![k].ws = "error"]
            /\ LoggedBy("compress", k, "open", packs[k].path, "EISDIR")
            /\ UNCHANGED disk
    /\ UNCHANGED <<req, resp, pc, ncomp, xvars, faults, crashed, root, files,
                   tasks>>

\* the pipe moves what the pack stream has emitted into the file
wsFlush(k) ==
    /\ ~crashed
    /\ packs[k].ws = "open"
    /\ \/ packs[k].flushed < Len(packs[k].entries)
       \/ packs[k].ended /\ ~packs[k].flushedEnd
    /\ disk' = writeAt(disk, packs[k].path,
                       Arch(containerKind(packs[k].fmt), packs[k].entries,
                            packs[k].ended))
    /\ packs' = [packs EXCEPT ![k].flushed = Len(packs[k].entries),
                              ![k].flushedEnd = packs[k].ended]
    /\ UNCHANGED <<req, resp, pc, ncomp, xvars, faults, crashed, root, files, tasks,
                   log>>

\* the pack stream has ended and is drained: the pipe ends the write
\* stream, which closes the file
wsClose(k) ==
    /\ ~crashed
    /\ packs[k].ws = "open"
    /\ packs[k].ended /\ packs[k].flushedEnd
    /\ packs[k].flushed = Len(packs[k].entries)
    /\ packs' = [packs EXCEPT ![k].ws = "closed"]
    /\ UNCHANGED <<disk, req, resp, pc, ncomp, xvars, faults, crashed, root, files,
                   tasks, log>>

-----------------------------------------------------------------------------
(* POST /decompress: decompressHandler, untar(), unzip() *)

NoStream == [fmt |-> "none", path |-> <<>>, target |-> <<>>, st |-> "none",
             data |-> NoData]

MetaCalls == {"chmod", "chown", "utimes"}

NoHeader == [name |-> PathStr(FALSE, <<>>), type |-> "none", mode |-> 0,
             uid |-> 0, gid |-> 0, mtime |-> 0, body |-> NoData]

NoMeta == [k |-> 0, path |-> <<>>, hdr |-> NoHeader,
           st |-> [c \in MetaCalls |-> "none"]]

\* decompressHandlerValidatior: format is one of the two literals
decompressHandlerValidatior(body) == body.format \in Formats

\* decompressHandler: the branch taken on body.format
decompressFormat(format) ==
    IF format = "tar.gz" THEN "tar"
    ELSE IF format = "zip" THEN "zip"
    ELSE "400"

\* decompressHandler: path.resolve(cwd, `./${dir}`, `./${body.file}`)
decompressFile(body) ==
    resolve(resolve(cwd, dotSlash(orSlash(body.dir))), dotSlash(body.file))

\* decompressHandler: path.resolve(cwd, `./${body.target}`)
decompressTarget(body) == resolve(cwd, dotSlash(body.target))

\* createReadStream(f).pipe(extract)
readStream(fmt, f, t) ==
    [fmt |-> fmt, path |-> f, target |-> t, st |-> "opening", data |-> NoData]

\* what tarstream.extract() makes of the bytes it is given: the entries of
\* a tar stream (with or without the end marker), nothing of an empty
\* input, an error of anything else.  untar() pipes the file's bytes
\* into it as they are.
tarParse(data) ==
    IF data.kind = "tar" THEN [ok |-> TRUE, entries |-> data.entries]
    ELSE IF data.kind = "raw" /\ data.bytes = 0
    THEN [ok |-> TRUE, entries |-> <<>>]
    ELSE [ok |-> FALSE, entries |-> <<>>]

\* untar: path.resolve(t, entry.header.name)
entryTarget(t, name) == resolve(t, name)

\* the entry the loop of untar() is at
curEntry == tarParse(rstreams[nextr].data).entries[idx + 1]
curTarget == entryTarget(rstreams[nextr].target, curEntry.name)

\* untar: entry.pipe(createWriteStream(target))
pipeEntry(k, target, e) ==
    [id |-> nextr, k |-> k, path |-> target, body |-> e.body, st |-> "opening"]

\* untar: Promise.all([fs.chmod(...), fs.chown(...), fs.utimes(...)]) starts
\* the three calls
startMeta(k, target, e) ==
    [k |-> k, path |-> target, hdr |-> [e EXCEPT !.body = NoData],
     st |-> [c \in MetaCalls |-> "pending"]]

\* the effect of one of the three calls: fs.chmod(target, mode),
\* fs.chown(target, uid, gid), fs.utimes(target, new Date(), mtime)
applyMeta(d, c, p, h) ==
    IF c = "chmod" THEN [d EXCEPT ![p].mode = typeBits(d[p].type) + h.mode]
    ELSE IF c = "chown" THEN [d EXCEPT ![p].uid = h.uid, ![p].gid = h.gid]
    ELSE [d EXCEPT ![p].mtime = h.mtime * 1000]

\* an 'error' event on a stream nobody listens to is thrown as an uncaught
\* exception: the runtime ends the process, or reports it and goes on
Unhandled == crashed' \in BOOLEAN

\* a decompress request arrives: validation, then decompressHandler up to
\* the first await of untar() (the first entry), or through unzip(), which
\* awaits nothing
decompressHandler(body) ==
    /\ pc = "idle" /\ ~crashed /\ nextr < MaxRequests
    /\ nextr' = nextr + 1
    /\ req' = [kind |-> "decompress", body |-> body]
    /\ idx' = 0
    /\ IF ~decompressHandlerValidatior(body)
       THEN Throw("VALIDATION") /\ UNCHANGED rstreams
       ELSE IF decompressFormat(body.format) = "tar"
       THEN /\ rstreams' = [rstreams EXCEPT ![nextr'] =
                   readStream("tar", decompressFile(body), decompressTarget(body))]
            /\ resp' = NoResp
            /\ pc' = "next"
       ELSE IF decompressFormat(body.format) = "zip"
       THEN /\ rstreams' = [rstreams EXCEPT ![nextr'] =
                   readStream("zip", decompressFile(body), decompressTarget(body))]
            /\ resp' = Plain(204)
            /\ pc' = "idle"
       ELSE resp' = Plain(400) /\ pc' = "idle" /\ UNCHANGED rstreams
    /\ UNCHANGED <<disk, faults, crashed, log, wss, metas, cvars>>

\* the read stream opens the archive and reads it to its end; without a
\* file to read it emits 'error', which pipe() does not pass on
rsOpen(k) ==
    /\ ~crashed
    /\ rstreams[k].st = "opening"
    /\ IF isFile(disk, rstreams[k].path)
       THEN /\ rstreams' = [rstreams EXCEPT ![k].st = "flowing",
                                            ![k].data = disk[rstreams[k].path].data]
            /\ LoggedBy("decompress", k, "read", rstreams[k].path, "")
            /\ UNCHANGED crashed
       ELSE /\ rstreams' = [rstreams EXCEPT ![k].st = "error"]
            /\ LoggedBy("decompress", k, "read", rstreams[k].path,
                        IF exists(disk, rstreams[k].path) THEN "EISDIR" ELSE "ENOENT")
            /\ Unhandled
    /\ UNCHANGED <<disk, req, resp, pc, faults, nextr, idx, wss, metas, cvars>>

\* untar: `for await (const entry of extract)` yields the next entry, ends,
\* or throws the parser's error; on an entry, fs.mkdir of the parent starts
untarNext ==
    /\ pc = "next" /\ ~crashed
    /\ rstreams[nextr].st = "flowing"
    /\ LET parsed == tarParse(rstreams[nextr].data) IN
       IF ~parsed.ok THEN Throw("UNKNOWN")
       ELSE IF idx < Len(parsed.entries)
       THEN pc' = "mkdirParent" /\ UNCHANGED resp
       ELSE resp' = Plain(204) /\ pc' = "idle"
    /\ UNCHANGED <<disk, req, faults, crashed, log, xvars, cvars>>

\* untar, after a directory is in place: a file entry is piped into a new
\* write stream, and in both cases the three calls start
AfterMkdir(e, target) ==
    /\ metas' = [metas EXCEPT ![nextr] = startMeta(idx + 1, target, e)]
    /\ pc' = "meta"

\* untar: `await fs.mkdir(path.dirname(target), {recursive: true})` ends
untarMkdirParent ==
    /\ pc = "mkdirParent" /\ ~crashed
    /\ LET e == curEntry
           target == curTarget
           dir == dirname(target)
       IN  IF ~mkdirOk(disk, dir)
           THEN /\ Logged("mkdir", dir, "ENOTDIR")
                /\ Throw("ENOTDIR")
                /\ UNCHANGED <<disk, wss, metas>>
           ELSE /\ Logged("mkdir", dir, "")
                /\ disk' = mkdirRecursive(disk, dir)
                /\ UNCHANGED resp
                /\ IF e.type = "file"
                   THEN /\ wss' = Append(wss, pipeEntry(idx + 1, target, e))
                        /\ AfterMkdir(e, target)
                   ELSE /\ pc' = "mkdirTarget"
                        /\ UNCHANGED <<wss, metas>>
    /\ UNCHANGED <<req, faults, crashed, nextr, rstreams, idx, cvars>>

\* untar: `await fs.mkdir(target, {recursive: true})` ends
untarMkdirTarget ==
    /\ pc = "mkdirTarget" /\ ~crashed
    /\ LET e == curEntry
           target == curTarget
       IN  IF ~mkdirOk(disk, target)
           THEN /\ Logged("mkdir", target, "EEXIST")
                /\ Throw("EEXIST")
                /\ UNCHANGED <<disk, metas>>
           ELSE /\ Logged("mkdir", target, "")
                /\ disk' = mkdirRecursive(disk, target)
                /\ UNCHANGED resp
                /\ AfterMkdir(e, target)
    /\ UNCHANGED <<req, faults, crashed, nextr, rstreams, idx, wss, cvars>>

\* one of the three calls runs and ends.  If untar() is still awaiting the
\* Promise.all of this entry it goes on: rethrow, next entry, or keep
\* waiting.
metaCall(k, c) ==
    /\ ~crashed
    /\ metas[k].st[c] = "pending"
    /\ \E err \in outcomes(disk, metas[k].path) :
        LET st == [metas[k].st EXCEPT ![c] = IF err = "" THEN "done" ELSE "failed"]
            r == promiseAll(st)
            awaited == pc = "meta" /\ k = nextr
        IN  /\ Injected(err)
            /\ LoggedBy("decompress", k, c, metas[k].path, err)
            /\ metas' = [metas EXCEPT ![k].st = st]
            /\ disk' = IF err = "" THEN applyMeta(disk, c, metas[k].path, metas[k].hdr)
                       ELSE disk
            /\ IF awaited /\ r = "rejected" THEN Throw(err) /\ UNCHANGED idx
               ELSE IF awaited /\ r = "fulfilled"
               THEN idx' = idx + 1 /\ pc' = "next" /\ UNCHANGED resp
               ELSE UNCHANGED <<resp, pc, idx>>
    /\ UNCHANGED <<req, crashed, nextr, rstreams, wss, cvars>>

\* the write stream of a file entry opens its file: created, or truncated
entryOpen(j) ==
    /\ ~crashed
    /\ wss[j].st = "opening"
    /\ IF openOk(disk, wss[j].path)
       THEN /\ disk' = openW(disk, wss[j].path, Raw(0))
            /\ wss' = [wss EXCEPT ![j].st = "open"]
            /\ LoggedBy("decompress", wss[j].id, "open", wss[j].path, "")
            /\ UNCHANGED crashed
       ELSE /\ wss' = [wss EXCEPT ![j].st = "error"]
            /\ LoggedBy("decompress", wss[j].id, "open", wss[j].path,
                        IF isDirectory(disk, wss[j].path) THEN "EISDIR" ELSE "ENOENT")
            /\ Unhandled
            /\ UNCHANGED disk
    /\ UNCHANGED <<req, resp, pc, faults, nextr, rstreams, idx, metas, cvars>>

\* the entry's body is written and the write stream finishes
entryFinish(j) ==
    /\ ~crashed
    /\ wss[j].st = "open"
    /\ disk' = writeAt(disk, wss[j].path, wss[j].body)
    /\ wss' = [wss EXCEPT ![j].st = "finished"]
    /\ UNCHANGED <<req, resp, pc, faults, crashed, log, nextr, rstreams, idx,
                   metas, cvars>>

RECURSIVE extractAll(_, _, _)
\* unzip-stream's Extract({path: t}): each entry is written under t, its
\* directories made as needed
extractAll(d, t, es) ==
    IF es = <<>> THEN d
    ELSE LET e == Head(es)
             p == resolve(t, PathStr(FALSE, e.name.segs))
             made == IF mkdirOk(d, dirname(p)) THEN mkdirRecursive(d, dirname(p)) ELSE d
             out == IF e.type = "directory"
                    THEN IF mkdirOk(made, p) THEN mkdirRecursive(made, p) ELSE made
                    ELSE IF openOk(made, p) THEN writeAt(openW(made, p, Raw(0)), p, e.body)
                    ELSE made
         IN  extractAll(out, t, Tail(es))

\* unzip(): the stream started by createReadStream(f).pipe(extract) runs
\* after unzip() has returned; what is no zip makes the parser emit 'error'
unzipExtract(k) ==
    /\ ~crashed
    /\ rstreams[k].fmt = "zip"
    /\ rstreams[k].st = "flowing"
    /\ IF rstreams[k].data.kind = "zip"
       THEN /\ disk' = extractAll(disk, rstreams[k].target, rstreams[k].data.entries)
            /\ rstreams' = [rstreams EXCEPT ![k].st = "done"]
            /\ UNCHANGED crashed
       ELSE /\ rstreams' = [rstreams EXCEPT ![k].st = "error"]
            /\ Unhandled
            /\ UNCHANGED disk
    /\ UNCHANGED <<req, resp, pc, faults, log, nextr, idx, wss, metas, cvars>>

-----------------------------------------------------------------------------
(* The initial filesystem and the requests of the client *)

\* an archive as tar() leaves it, without an end marker: a directory, and a
\* file two directories deep that no entry names
InTar ==
    << [name |-> PathStr(FALSE, <<"e">>), type |-> "directory", mode |-> 448,
        uid |-> 1000, gid |-> 1000, mtime |-> 2, body |-> NoData],
       [name |-> PathStr(FALSE, <<"n", "m", "f">>), type |-> "file", mode |-> 384,
        uid |-> 1000, gid |-> 1000, mtime |-> 1, body |-> Raw(3)] >>

\* an archive made elsewhere: one name climbs out with "..", one is absolute
EvilTar ==
    << [name |-> PathStr(FALSE, <<"..", "up">>), type |-> "file", mode |-> 420,
        uid |-> 0, gid |-> 0, mtime |-> 1, body |-> Raw(4)],
       [name |-> PathStr(TRUE, <<"o", "x">>), type |-> "file", mode |-> 420,
        uid |-> 0, gid |-> 0, mtime |-> 1, body |-> Raw(5)] >>

\* two unrelated top-level files
EntryA ==
    [name |-> PathStr(FALSE, <<"p">>), type |-> "file", mode |-> 384,
     uid |-> 1000, gid |-> 1000, mtime |-> 1, body |-> Raw(8)]
EntryB ==
    [name |-> PathStr(FALSE, <<"q">>), type |-> "file", mode |-> 420,
     uid |-> 0, gid |-> 0, mtime |-> 2, body |-> Raw(9)]

\* the same archive with its entries in the one order and in the other
TarAB == <<EntryA, EntryB>>
TarBA == <<EntryB, EntryA>>

InZip ==
    << [name |-> PathStr(FALSE, <<"z">>), type |-> "file", mode |-> 420,
        uid |-> 0, gid |-> 0, mtime |-> 1, body |-> Raw(6)] >>

\* /srv is the working directory; /srv/T is a tree with a nested directory
Disk0 ==
    LET dir(perm, t) == Node("directory", NoData, perm, 0, 0, t)
        file(b, perm, u, t) == Node("file", Raw(b), perm, u, u, t)
    IN  (<<>> :> dir(493, 1000))
     @@ (<<"srv">> :> dir(493, 1000))
     @@ (<<"srv", "T">> :> dir(493, 2500))
     @@ (<<"srv", "T", "a">> :> file(1, 384, 0, 1000))
     @@ (<<"srv", "T", "c">> :> file(7, 420, 0, 2500))
     @@ (<<"srv", "T", "d">> :> dir(448, 2500))
     @@ (<<"srv", "T", "d", "b">> :> file(2, 420, 1000, 2500))
     @@ (<<"o">> :> dir(493, 1000))
     @@ (<<"o", "x">> :> file(0, 420, 0, 1000))
     @@ (<<"srv", "in.tar.gz">> :>
            Node("file", Arch("tar", InTar, FALSE), 420, 0, 0, 1000))
     @@ (<<"srv", "evil.tar.gz">> :>
            Node("file", Arch("tar", EvilTar, TRUE), 420, 0, 0, 1000))
     @@ (<<"srv", "ab.tar.gz">> :>
            Node("file", Arch("tar", TarAB, TRUE), 420, 0, 0, 1000))
     @@ (<<"srv", "ba.tar.gz">> :>
            Node("file", Arch("tar", TarBA, TRUE), 420, 0, 0, 1000))
     @@ (<<"srv", "gz.tar.gz">> :>
            Node("file", gzip(Arch("tar", InTar, TRUE)), 420, 0, 0, 1000))
     @@ (<<"srv", "in.zip">> :>
            Node("file", Arch("zip", InZip, TRUE), 420, 0, 0, 1000))

CompressBodies ==
    [dir : {<<>>},
     target : {<<"T">>, <<"T", "a">>, <<"nope">>, <<"..", "o">>},
     format : {"tar.gz", "zip", "rar"}]

DecompressBodies ==
    [dir : {<<>>},
     file : {<<"in.tar.gz">>, <<"evil.tar.gz">>, <<"ab.tar.gz">>, <<"ba.tar.gz">>,
             <<"gz.tar.gz">>, <<"in.zip">>, <<"nope">>, <<"T.tar.gz">>},
     target : {<<"D">>},
     format : {"tar.gz", "zip", "rar"}]

vars == <<disk, req, resp, pc, ncomp, faults, crashed, root, files, tasks,
          packs, log, xvars>>

Init ==
    /\ disk = Disk0
    /\ req = NoReq
    /\ resp = NoResp
    /\ pc = "idle"
    /\ ncomp = 0
    /\ nextr = 0
    /\ rstreams = [k \in 1..MaxRequests |-> NoStream]
    /\ idx = 0
    /\ wss = <<>>
    /\ metas = [k \in 1..MaxRequests |-> NoMeta]
    /\ faults = 0
    /\ crashed = FALSE
    /\ root = <<>>
    /\ files = <<>>
    /\ tasks = <<>>
    /\ packs = [k \in 1..MaxRequests |-> NoPack]
    /\ log = {}

NextCompress ==
    \/ \E body \in CompressBodies : compressHandler(body)
    \/ getFilesStat
    \/ getFilesReaddir
    \/ \E i \in DOMAIN files : getFilesStatEntry(i)
    \/ \E i \in DOMAIN tasks : readFile(i)
    \/ \E k \in DOMAIN packs : deflateEnd(k)
    \/ \E k \in DOMAIN packs : wsOpen(k)
    \/ \E k \in DOMAIN packs : wsFlush(k)
    \/ \E k \in DOMAIN packs : wsClose(k)

\* the decompress side with a client whose requests are drawn from bodies
Decompress(bodies) ==
    \/ \E body \in bodies : decompressHandler(body)
    \/ \E k \in DOMAIN rstreams : rsOpen(k)
    \/ untarNext
    \/ untarMkdirParent
    \/ untarMkdirTarget
    \/ \E k \in DOMAIN metas, c \in MetaCalls : metaCall(k, c)
    \/ \E j \in DOMAIN wss : entryOpen(j)
    \/ \E j \in DOMAIN wss : entryFinish(j)
    \/ \E k \in DOMAIN rstreams : unzipExtract(k)

NextDecompress == Decompress(DecompressBodies)

\* the requests of a client that extracts what it has archived
RoundTripBodies ==
    {body \in DecompressBodies : body.file \in {<<"T.tar.gz">>, <<"in.zip">>}}

Next == NextCompress \/ Decompress(RoundTripBodies)

\* the server with a client that compresses, and extracts the archive
Spec == Init /\ [][Next]_vars

\* the server with a client that only compresses
SpecCompress == Init /\ [][NextCompress]_vars

\* the server with a client that only decompresses
SpecDecompress == Init /\ [][NextDecompress]_vars

-----------------------------------------------------------------------------
(* Claims *)

\* the compress request in hand has been answered 204 with a location
CompressReturned == req.kind = "compress" /\ resp.status = 204

\* C1: whenever tar() or zip() has returned a path, the file at that path
\* holds every entry and the end-of-archive record, and the write stream is
\* closed.
C1_ReturnedArchiveComplete ==
    CompressReturned =>
        /\ resp.hasLocation
        /\ packs[ncomp].ws = "closed"
        /\ isFile(disk, resp.location)
        /\ disk[resp.location].data =
               Arch(containerKind(packs[ncomp].fmt), packs[ncomp].entries, TRUE)
        /\ Len(packs[ncomp].entries) = Len(files)

\* the write streams of entry n of decompress request k
entryStreams(k, n) == {j \in DOMAIN wss : wss[j].id = k /\ wss[j].k = n}

\* C2: in untar(), chmod, chown and utimes of a file entry have started only
\* if the entry's write stream has finished.
C2_MetadataAfterContent ==
    \A k \in DOMAIN metas :
        (metas[k].hdr.type = "file" /\ \E c \in MetaCalls : metas[k].st[c] # "none")
        => \E j \in entryStreams(k, metas[k].k) : wss[j].st = "finished"

\* the tree that is archived and the directory it is extracted into
TreeT == <<"srv", "T">>
TargetD == <<"srv", "D">>

\* tar() of T has returned and its archive is all in the file, untar() of
\* that file into D has read all of it and has returned, and every stream
\* and call that untar() started has ended
RoundTripDone ==
    /\ packs[1].fmt = "tar" /\ packs[1].path = archiveName(TreeT, "tar")
    /\ packs[1].flushed = Len(packs[1].entries)
    /\ rstreams[1].fmt = "tar" /\ rstreams[1].path = packs[1].path
    /\ rstreams[1].target = TargetD
    /\ rstreams[1].data = Arch("tar", packs[1].entries, FALSE)
    /\ req.kind = "decompress" /\ resp.status = 204 /\ pc = "idle"
    /\ \A j \in DOMAIN wss : wss[j].st = "finished"
    /\ \A c \in MetaCalls : metas[1].st[c] = "done"

\* where the object at q is after the round trip: D joined with its name
underD(q) == resolve(TargetD, stripCwd(q))

\* the object at q of the original tree is reproduced under D
Reproduced(q) ==
    /\ exists(disk, underD(q))
    /\ disk[underD(q)].type = Disk0[q].type
    /\ disk[underD(q)].data = Disk0[q].data
    /\ disk[underD(q)].mode = Disk0[q].mode
    /\ disk[underD(q)].uid = Disk0[q].uid
    /\ disk[underD(q)].gid = Disk0[q].gid
    /\ disk[underD(q)].mtime \div 1000 = Disk0[q].mtime \div 1000

\* C3: after createArchive(T, "tar.gz") and the extraction of its archive
\* into D have quiesced, every file and directory of T, at every depth, is
\* under D with the same content, mode, uid, gid and mtime (in seconds).
C3_RoundTripIdentity ==
    RoundTripDone => \A q \in descendants(Disk0, TreeT) : Reproduced(q)

\* C4: every path that extraction opens for writing, or calls chmod, chown
\* or utimes on, lies inside the extraction target directory.
C4_ExtractionContained ==
    /\ \A j \in DOMAIN wss : Inside(rstreams[wss[j].id].target, wss[j].path)
    /\ \A k \in DOMAIN metas :
           metas[k].k > 0 => Inside(rstreams[k].target, metas[k].path)

\* getFiles has returned its list to tar()/zip()
Enumerated ==
    /\ req.kind = "compress"
    /\ pc \in {"tasks", "idle"}
    /\ files # <<>>
    /\ \A i \in DOMAIN files : files[i].st = "done"

\* C5: the list getFiles returns for a directory is the set of all its
\* descendants, at every depth, without the directory itself; for a file it
\* is the file alone.
C5_EnumerationRecursive ==
    Enumerated =>
        {files[i].p : i \in DOMAIN files} =
            IF isDirectory(disk, root) THEN descendants(disk, root) ELSE {root}

\* the decompress request in hand names an archive that does not exist
ArchiveMissing ==
    /\ req.kind = "decompress"
    /\ req.body.format \in Formats
    /\ ~exists(disk, decompressFile(req.body))

\* C6: a decompress request for an archive that does not exist is answered
\* with NotFound (404), for both formats.
C6_MissingArchiveNotFound ==
    (ArchiveMissing /\ resp # NoResp) => resp.status = 404

\* a stream or call of decompress request k has failed
ExtractionFailed(k) ==
    \/ rstreams[k].st = "error"
    \/ \E j \in DOMAIN wss : wss[j].id = k /\ wss[j].st = "error"
    \/ \E c \in MetaCalls : metas[k].st[c] = "failed"

\* C7: no decompress request during which a stream or a filesystem call has
\* failed is answered with success.
C7_ExtractionFailureReported ==
    (req.kind = "decompress" /\ resp.status = 204) => ~ExtractionFailed(nextr)

\* C8: a compress request whose format is neither "tar.gz" nor "zip" is
\* answered 400, and nothing is enumerated and no archive is opened for it.
C8_UnsupportedFormatRejected ==
    (req.kind = "compress" /\ req.body.format \notin Formats) =>
        /\ pc = "idle"
        /\ resp.status = 400 /\ ~resp.hasLocation
        /\ packs[ncomp] = NoPack
        /\ \A r \in log : ~(r.by = "compress" /\ r.id = ncomp)

C8_Witness ==
    /\ req.kind = "compress" /\ req.body.format = "rar"
    /\ resp.status = 400
    /\ exists(disk, compressTarget(req.body))

\* the compress request in hand names a root that does not exist
RootMissing ==
    /\ req.kind = "compress"
    /\ req.body.format \in Formats
    /\ ~exists(disk, compressTarget(req.body))

\* C9: createArchive of a root that does not exist fails with NotFound, for
\* both formats: the handler goes no further than the stat of the root, and
\* its answer is ENOENT, 404, without a location.
C9_MissingRootNotFound ==
    RootMissing =>
        /\ pc \in {"stat", "idle"}
        /\ pc = "idle" =>
               resp.status = 404 /\ resp.code = "ENOENT" /\ ~resp.hasLocation
        /\ packs[ncomp] = NoPack

C9_Witness ==
    /\ RootMissing /\ req.body.format = "zip"
    /\ pc = "idle" /\ resp.status = 404

\* the stats and reads of the compress request in hand that have failed
EntryFailures ==
    {r \in log : /\ r.by = "compress" /\ r.id = ncomp
                 /\ r.op \in {"stat", "readFile"} /\ r.err # ""}

\* C10: once the stat or the read of an entry has failed, createArchive has
\* failed with that error, whatever the other tasks have done by then: the
\* answer carries the error's code and no location, and no archive is opened.
C10_EntryFailureFailsAll ==
    (req.kind = "compress" /\ EntryFailures # {}) =>
        /\ pc = "idle"
        /\ resp.status # 204 /\ ~resp.hasLocation
        /\ \E r \in EntryFailures : resp.code = r.err
        /\ packs[ncomp].ws = "none"

\* the read of one entry has failed after the read of another has ended
C10_Witness ==
    /\ req.kind = "compress"
    /\ \E r \in EntryFailures : r.op = "readFile" /\ resp.code = r.err
    /\ \E r \in log : /\ r.by = "compress" /\ r.id = ncomp
                      /\ r.op = "readFile" /\ r.err = ""
    /\ resp.status = 500

\* untar() of the decompress request in hand has ended, and so has every
\* stream and call it started
Quiesced ==
    /\ req.kind = "decompress" /\ pc = "idle" /\ resp # NoResp
    /\ rstreams[nextr].fmt = "tar" /\ rstreams[nextr].st # "opening"
    /\ \A j \in DOMAIN wss : wss[j].id = nextr => wss[j].st \in {"finished", "error"}
    /\ \A c \in MetaCalls : metas[nextr].st[c] # "pending"

\* entry e is at path p as its header and body say
Extracted(e, p) ==
    /\ exists(disk, p)
    /\ disk[p].type = e.type
    /\ disk[p].data = e.body
    /\ disk[p].mode = typeBits(e.type) + e.mode
    /\ disk[p].uid = e.uid /\ disk[p].gid = e.gid
    /\ disk[p].mtime = e.mtime * 1000

\* the state under the target directory that the archive of A and B
\* describes
StateOfAB(t) ==
    /\ descendants(disk, t) = {entryTarget(t, EntryA.name), entryTarget(t, EntryB.name)}
    /\ Extracted(EntryA, entryTarget(t, EntryA.name))
    /\ Extracted(EntryB, entryTarget(t, EntryB.name))

\* the request in hand extracts the archive of A and B, in either order
ExtractsAB ==
    /\ req.kind = "decompress" /\ req.body.format = "tar.gz"
    /\ req.body.file \in {<<"ab.tar.gz">>, <<"ba.tar.gz">>}

\* C11: extracting the archive of two unrelated top-level files A and B ends
\* in the same state under the target directory (paths, contents, modes,
\* owners, mtimes) whether the archive holds A,B or B,A, and whatever the
\* interleaving of the extraction; no I/O failure is injected.
C11_EntryOrderIndependent ==
    (ExtractsAB /\ Quiesced /\ faults = 0) => StateOfAB(rstreams[nextr].target)

\* C12: whenever untar() has made the write stream of a file entry, the
\* recursive mkdir of the entry's parent has succeeded, whether or not the
\* directory was there already, and every directory on the way to the file
\* exists; a mkdir that failed was not that of an existing directory.
C12_NestedPathCreated ==
    /\ \A j \in DOMAIN wss :
           /\ [by |-> "decompress", id |-> wss[j].id, op |-> "mkdir",
               path |-> dirname(wss[j].path), err |-> ""] \in log
           /\ \A q \in prefixes(dirname(wss[j].path)) : isDirectory(disk, q)
    /\ \A r \in log :
           (r.by = "decompress" /\ r.op = "mkdir" /\ r.err # "") =>
               ~isDirectory(disk, r.path)

\* the file two new directories deep is written
C12_Witness ==
    \E j \in DOMAIN wss :
        /\ wss[j].path = <<"srv", "D", "n", "m", "f">>
        /\ wss[j].st = "finished"
        /\ ~exists(Disk0, <<"srv", "D">>)
        /\ isFile(disk, wss[j].path)

\* the compress request in hand has been answered
CompressAnswered == req.kind = "compress" /\ pc = "idle" /\ resp # NoResp

\* C13: a compress request is answered 400 exactly when its format is not
\* supported, 404 exactly when a stat or read of it failed on a missing path,
\* 500 for every other failure, and 204 only without a failure.
C13_ErrorStatusMapping ==
    CompressAnswered =>
        LET unsupported == req.body.format \notin Formats
            missing == \E r \in EntryFailures : r.err = "ENOENT"
            other == \E r \in EntryFailures : r.err # "ENOENT"
        IN  /\ resp.status \in {204, 400, 404, 500}
            /\ resp.status = 400 <=> unsupported
            /\ resp.status = 404 <=> (~unsupported /\ missing)
            /\ (~unsupported /\ other /\ ~missing) => resp.status = 500
            /\ resp.status = 204 => EntryFailures = {}

\* a stat that failed with an I/O error is answered 500
C13_Witness ==
    /\ CompressAnswered /\ resp.status = 500
    /\ \E r \in EntryFailures : r.op = "stat" /\ r.err = "EIO" /\ r.path # root

\* C14: the central directory of a zip archive is emitted only after
\* finish() was called and with no entry in work; it then lists every entry
\* that was enumerated, and a destination that holds a central directory
\* holds every entry of the stream that wrote it.
C14_ZipFinishAfterEntries ==
    \A k \in DOMAIN packs :
        (packs[k].fmt = "zip" /\ packs[k].ended) =>
            /\ packs[k].finish /\ packs[k].busy = <<>>
            /\ k = ncomp =>
                   /\ Len(packs[k].entries) = Len(files)
                   /\ {packs[k].entries[i].name.segs : i \in DOMAIN packs[k].entries}
                          = {entryName(root, files[i].p).segs : i \in DOMAIN files}
            /\ (isFile(disk, packs[k].path) /\ disk[packs[k].path].data.fin) =>
                   \E w \in DOMAIN packs :
                       /\ packs[w].path = packs[k].path
                       /\ packs[w].ended /\ packs[w].busy = <<>>
                       /\ disk[packs[k].path].data = Arch("zip", packs[w].entries, TRUE)

\* the archive of a directory and two files, each file deflated in its
\* turn, is in the destination with its central directory
C14_Witness ==
    \E k \in DOMAIN packs :
        /\ packs[k].fmt = "zip" /\ packs[k].ended /\ packs[k].flushedEnd
        /\ Len(packs[k].entries) = 3
        /\ \E i \in DOMAIN packs[k].entries : packs[k].entries[i].body.bytes > 0

\* the places of the header of the entry named n in the tar stream out
headersOf(out, n) == {i \in DOMAIN out : out[i].rec = "header" /\ out[i].name = n}

\* C15: in the stream of tar(), the header of a file entry is followed at
\* once by the body of that entry, which is the whole content of the file
\* (of a file that nothing has written since the start), and every body
\* follows its header; no entry is in the stream twice, and
\* when tar() has returned every enumerated entry is in it once.
C15_TarEntriesContiguous ==
    \A k \in DOMAIN packs :
        packs[k].fmt = "tar" =>
            LET out == packs[k].out IN
            /\ \A i \in DOMAIN out :
                   /\ (out[i].rec = "header" /\ out[i].type = "file") =>
                          /\ i < Len(out)
                          /\ out[i + 1].rec = "body" /\ out[i + 1].name = out[i].name
                   /\ out[i].rec = "body" =>
                          /\ i > 1
                          /\ out[i - 1].rec = "header" /\ out[i - 1].name = out[i].name
            /\ k = ncomp =>
                   \A j \in DOMAIN files :
                       LET n == entryName(root, files[j].p)
                           h == headersOf(out, n)
                       IN  /\ Cardinality(h) <= 1
                           /\ (CompressReturned /\ pc = "idle") => Cardinality(h) = 1
                           /\ \A i \in h : files[j].s.type = "file" =>
                                  /\ i < Len(out)
                                  /\ (exists(Disk0, files[j].p)
                                          /\ disk[files[j].p] = Disk0[files[j].p]) =>
                                         out[i + 1].data = Disk0[files[j].p].data

\* tar() has returned the archive of a directory whose two files were read
\* in the order opposite to that of the list
C15_Witness ==
    /\ CompressReturned /\ packs[ncomp].fmt = "tar"
    /\ Len(packs[ncomp].out) = 5
    /\ \E i, j \in DOMAIN files :
           /\ i < j /\ files[i].s.type = "file" /\ files[j].s.type = "file"
           /\ \E a \in headersOf(packs[ncomp].out, entryName(root, files[i].p)) :
              \E b \in headersOf(packs[ncomp].out, entryName(root, files[j].p)) : b < a

\* every entry a pack stream has been given: those emitted and the one in work
given(pk) == pk.entries \o pk.busy

\* C16: every entry name that tar() or zip() gives to its pack stream is
\* relative (no leading "/"), no two entries of one archive have the same
\* name, and a directory entry has no content.
C16_EntryNamesRelativeUnique ==
    \A k \in DOMAIN packs :
        LET es == given(packs[k]) IN
        /\ \A i \in DOMAIN es :
               /\ ~es[i].name.abs
               /\ es[i].type = "directory" => es[i].body = NoData
        /\ \A i, j \in DOMAIN es : es[i].name = es[j].name => i = j

\* C17: what the tar parser of untar() is given is never a gzip member: the
\* bytes of a gzip-wrapped archive reach it inflated, and it parses them
\* into the entries of the archive.
C17_TarGzInflated ==
    \A k \in DOMAIN rstreams :
        (rstreams[k].fmt = "tar" /\ rstreams[k].st = "flowing") =>
            /\ ~gunzip(rstreams[k].data).ok
            /\ (isFile(disk, rstreams[k].path)
                    /\ gunzip(disk[rstreams[k].path].data).ok) =>
                   /\ rstreams[k].data = gunzip(disk[rstreams[k].path].data).data
                   /\ tarParse(rstreams[k].data).ok

\* the destination of the compress request in hand
destination == archiveName(root, fmtOf(req))

\* C18: the write stream of tar()/zip() exists only when enumeration and
\* every task have succeeded; a createArchive that failed has opened no file,
\* and the destination is as it was before the request.
C18_NoDestinationOnFailure ==
    (req.kind = "compress" /\ req.body.format \in Formats) =>
        /\ packs[ncomp].ws # "none" =>
               /\ CompressReturned /\ pc = "idle"
               /\ EntryFailures = {}
               /\ files # <<>> /\ \A i \in DOMAIN files : files[i].st = "done"
        /\ (CompressAnswered /\ resp.status # 204) =>
               /\ packs[ncomp].ws = "none"
               /\ \A r \in log : ~(r.by = "compress" /\ r.id = ncomp /\ r.op = "open")
               /\ ncomp = 1 =>
                      /\ exists(disk, destination) <=> exists(Disk0, destination)
                      /\ exists(disk, destination) => disk[destination] = Disk0[destination]

\* zip() has failed on the read of one file after the read of another
C18_Witness ==
    /\ CompressAnswered /\ req.body.format = "zip" /\ resp.status = 500
    /\ \E r \in EntryFailures : r.op = "readFile"
    /\ \E r \in log : r.by = "compress" /\ r.op = "readFile" /\ r.err = ""
    /\ ~exists(disk, destination)

\* the request in hand is a tar extraction
Untarring == req.kind = "decompress" /\ req.body.format = "tar.gz"

\* the entries of the archive that untar() is reading, in archive order
entriesRead ==
    IF rstreams[nextr].st = "flowing" /\ tarParse(rstreams[nextr].data).ok
    THEN tarParse(rstreams[nextr].data).entries
    ELSE <<>>

\* where entry i of that archive goes
targetOf(i) == entryTarget(rstreams[nextr].target, entriesRead[i].name)

\* untar() has failed
UntarFailed == Untarring /\ pc = "idle" /\ resp.status \notin {0, 204}

\* C19: untar() works on one entry at a time, in archive order: when it is
\* at entry idx + 1, chmod, chown and utimes of every entry before it have
\* ended without error, no directory was made and no write stream exists
\* for an entry after it, and the paths of those entries are untouched; when
\* untar() has failed at an entry, the entries before it are on disk.
C19_UntarSequential ==
    Untarring =>
        /\ idx <= Len(entriesRead)
        /\ \A i \in 1..idx : \A c \in MetaCalls :
               [by |-> "decompress", id |-> nextr, op |-> c, path |-> targetOf(i),
                err |-> ""] \in log
        /\ \A j \in DOMAIN wss : wss[j].id = nextr =>
               /\ wss[j].k <= idx + 1
               /\ wss[j].path = targetOf(wss[j].k)
        /\ \A r \in log :
               (r.by = "decompress" /\ r.id = nextr /\ r.op \in MetaCalls \cup {"mkdir"}) =>
                   \E i \in 1..(idx + 1) :
                       i <= Len(entriesRead) /\ r.path \in {targetOf(i), dirname(targetOf(i))}
        /\ nextr = 1 =>
               \A i \in (idx + 2)..Len(entriesRead) :
                   /\ exists(disk, targetOf(i)) <=> exists(Disk0, targetOf(i))
                   /\ exists(disk, targetOf(i)) => disk[targetOf(i)] = Disk0[targetOf(i)]
        /\ UntarFailed => \A i \in 1..idx : exists(disk, targetOf(i))

\* untar() has failed on a metadata call of the second entry, with the
\* first entry on disk and its three calls ended
C19_Witness ==
    /\ UntarFailed /\ idx = 1 /\ Len(entriesRead) = 2
    /\ metas[nextr].k = 2
    /\ \E c \in MetaCalls : metas[nextr].st[c] = "failed"
    /\ exists(disk, targetOf(1))

====
